---- MODULE Spec2Model ----
(***************************************************************************)
(* Model of src/libstd/sys/unix/fast_thread_local.rs: the per-thread       *)
(* storage cell Key<T> (get / register_dtor), the platform registrars      *)
(* (register_dtor for linux, macos, fuchsia), the fallback registrar       *)
(* (register_dtor_fallback and its runner run_dtors) and the destructor    *)
(* trampoline destroy_value.                                               *)
(*                                                                         *)
(* A Key is a #[thread_local] static: every thread has its own instance,   *)
(* addressed here by the pointer <<thread, cell>>.                         *)
(***************************************************************************)
EXTENDS Integers, Sequences, FiniteSets, TLC

\* ------------------------------------------------------------------ bounds
NumCells == 2
MaxVal   == 2
MaxOps   == 3
MaxOpsMT == 2
NumCellsMT == 1

Threads  == {"X", "Y"}
Cells    == 1..NumCells
Values   == 1..MaxVal

\* -------------------------------------------------------- slot contents
\* Option<T> in Key::inner: None, Some(v) for v in Values, or the stale
\* bytes left behind once the Option has been dropped / moved out.
None    == 0
Dropped == -1

NoSlot  == <<>>
NullPtr == 0

VARIABLES
    live,             \* the threads the program has spawned
    aborted,          \* the process was aborted by a failed allocation
    platform,         \* target_os of the build
    hook,             \* __cxa_thread_atexit_impl resolved non-null (linux)
    needs,            \* needs[c]: mem::needs_drop::<T>() of cell c's type
    inner,            \* inner[t][c]: Key::inner of thread t's instance
    dtor_registered,  \* dtor_registered[t][c]
    dtor_running,     \* dtor_running[t][c]
    DTORS,            \* DTORS[t]: value of the OS key for thread t (0 = null)
    heap,             \* heap[t]: the Box<List>s thread t has allocated, each with
                      \* its pairs, whether it was freed, and how often a pass
                      \* of run_dtors took it over
    native,           \* native[t]: pairs held by the native hook for t
    phase,            \* "running" | "exiting" | "exited"
    pc,               \* position of the exit sequence of thread t
    list,             \* run_dtors: `ptr` / the Box<List> owned by the current pass
    idx,              \* run_dtors: position of list.iter()
    cur,              \* destroy_value: its `ptr` argument while it runs
    ret,              \* result of the latest Key::get of thread t, and the
                      \* destructor (if any) whose Drop code made the call
    ops,              \* number of Key::get calls made so far
    accessed,         \* history: Key::get was called on <<t, c>>
    regCount,         \* history: calls of register_dtor with pointer <<t, c>>
    invoked,          \* history: calls of destroy_value with pointer <<t, c>>
    lateFirst,        \* history: the first Key::get on <<t, c>> was made inside a destructor
    stored,           \* history: value last written by t through c's slot
    consumed,         \* history: content of the slot destroy_value consumed
    passLog,          \* history: pointers invoked in the current pass of t
    regSeq,           \* history: pointers in the order t registered them
    returned          \* history: run_dtors has returned on t

vars == <<live, aborted, platform, hook, needs, inner, dtor_registered, dtor_running,
          DTORS, heap, native, phase, pc, list, idx, cur, ret, ops,
          accessed, regCount, invoked, lateFirst, stored, consumed, passLog,
          regSeq, returned>>

\* The state one thread can observe: its cell instances and its registrar.
View(t) == <<inner[t], dtor_registered[t], dtor_running[t], DTORS[t],
             heap[t], native[t]>>

\* --------------------------------------------------------------- Key<T>
\* Key::new: empty value, both flags false.
KeyNewInner == None
KeyNewFlag  == FALSE

\* Variant: the registered pointer is that of the first cell.
SelfPtrFirst(t, c) == <<t, 1>>

\* Variant: the registered pointer is one shared instance, not the caller's.
SelfPtrShared(t, c) == <<"X", c>>

\* `self as *const _ as *mut u8` in Key::register_dtor.
SelfPtr(t, c) == <<t, c>>

\* Variant: the slot handed out is that of the first cell.
SlotOfFirst(t, c) == <<t, 1>>

\* `Some(&self.inner)` in Key::get.
SlotOf(t, c) == <<t, c>>

\* Variant: get refuses whenever any destructor of the thread has started.
GetUnavailableAnyDtor(t, c) == \E d \in Cells : dtor_running[t][d]

\* Variant: get refuses only while the trampoline of the cell is executing.
GetUnavailableInside(t, c) ==
    needs[c] /\ pc[t] = "drop" /\ cur[t] = <<t, c>>

\* Variant: get never looks at dtor_running.
GetNeverUnavailable(t, c) == FALSE

\* Key::get: `mem::needs_drop::<T>() && self.dtor_running.get()`.
GetUnavailable(t, c) == needs[c] /\ dtor_running[t][c]

\* Variants: register_dtor without the dtor_registered test, and without the
\* needs_drop test.
SkipNoFlag(t, c) == ~needs[c]

SkipNoNeeds(t, c) == dtor_registered[t][c]

\* Key::register_dtor: `!mem::needs_drop::<T>() || self.dtor_registered.get()`.
SkipRegistration(t, c) == ~needs[c] \/ dtor_registered[t][c]

\* ------------------------------------------------------------ registrar
\* Variant: linux never probes the weak symbol and always falls back.
HookNotProbed == platform = "macos"

\* linux: `!__cxa_thread_atexit_impl.is_null()`; macos: _tlv_atexit;
\* fuchsia: always the fallback.
UseNativeHook ==
    \/ platform = "macos"
    \/ platform = "linux" /\ hook

\* __cxa_thread_atexit_impl / _tlv_atexit: the runtime keeps the pairs of the
\* calling thread and runs them, newest first, at thread exit.
NativeRegister(l, p) == <<p>> \o l

\* The OS key DTORS holds one value per thread.
DtorsGet(t) == DTORS[t]

EmptyList == [items |-> <<>>, freed |-> FALSE, iters |-> 0]

\* Variant: the pair is inserted at the front of the list.
PushFront(l, p) == <<p>> \o l

\* `list.push((t, dtor))`.
Push(l, p) == Append(l, p)

\* Variant: a fresh list is allocated on every registration.
AlwaysNewList(t) == Len(heap[t]) + 1

\* register_dtor_fallback: `if DTORS.get().is_null() { box Vec::new() ... }`.
FallbackListPtr(t) ==
    IF DtorsGet(t) = NullPtr THEN Len(heap[t]) + 1 ELSE DtorsGet(t)

\* register_dtor_fallback: the list DTORS points to after the `if`, with the
\* pair pushed.
FallbackHeap(t, p) ==
    LET k == FallbackListPtr(t)
        h == IF k > Len(heap[t]) THEN Append(heap[t], EmptyList) ELSE heap[t]
    IN  [h EXCEPT ![k].items = Push(@, p)]

\* The native hook keeps the pair when it returns 0.
HookKeeps(r) == r = 0

\* register_dtor(t, dtor) of the build's platform, called by thread t; r is
\* what the native hook returns, which register_dtor does not look at.
RegisterDtor(t, p, r) ==
    IF UseNativeHook
    THEN /\ native' = [native EXCEPT ![t] =
                          IF HookKeeps(r) THEN NativeRegister(@, p) ELSE @]
         /\ UNCHANGED <<DTORS, heap>>
    ELSE /\ heap'  = [heap EXCEPT ![t] = FallbackHeap(t, p)]
         /\ DTORS' = [DTORS EXCEPT ![t] = FallbackListPtr(t)]
         /\ UNCHANGED native

\* Variant: the runner does not look at DTORS again after its pass.
NoRescan(t) == NullPtr

\* run_dtors: `ptr = DTORS.get()` after a pass.
NextPtr(t) == DtorsGet(t)

\* Variant: the runner leaves DTORS pointing at the list it is about to run.
KeptPtr(t) == DtorsGet(t)

\* run_dtors: `DTORS.set(ptr::null_mut())` after a pass.
ClearedPtr(t) == NullPtr

\* Variant: the trampoline leaves dtor_running as it found it.
FlagKept(old) == old

\* destroy_value: `(*ptr).dtor_running.set(true)`.
RunningFlag(old) == TRUE

\* Variant: the trampoline does not consume the value.
ConsumeNothing(v) == v

\* destroy_value: ptr::read (macos) / ptr::drop_in_place (others) consume the
\* Option; the slot is not written, it keeps the bytes of the dead value.
Consume(v) == IF v = None THEN None ELSE Dropped

\* --------------------------------------------------------------- Init
Boot ==
    /\ aborted = FALSE
    /\ platform \in {"linux", "macos", "fuchsia"}
    /\ hook \in BOOLEAN
    /\ (platform # "linux" => hook = FALSE)
    /\ needs \in [Cells -> BOOLEAN]
    /\ inner = [t \in Threads |-> [c \in Cells |-> KeyNewInner]]
    /\ dtor_registered = [t \in Threads |-> [c \in Cells |-> KeyNewFlag]]
    /\ dtor_running = [t \in Threads |-> [c \in Cells |-> KeyNewFlag]]
    /\ DTORS = [t \in Threads |-> NullPtr]
    /\ heap = [t \in Threads |-> <<>>]
    /\ native = [t \in Threads |-> <<>>]
    /\ phase = [t \in Threads |-> "running"]
    /\ pc = [t \in Threads |-> "idle"]
    /\ list = [t \in Threads |-> NullPtr]
    /\ idx = [t \in Threads |-> 0]
    /\ cur = [t \in Threads |-> NoSlot]
    /\ ret = [t \in Threads |-> [cell |-> 0, slot |-> NoSlot, wrote |-> FALSE, in |-> NoSlot]]
    /\ ops = 0
    /\ accessed = [t \in Threads |-> [c \in Cells |-> FALSE]]
    /\ regCount = [t \in Threads |-> [c \in Cells |-> 0]]
    /\ invoked = [t \in Threads |-> [c \in Cells |-> 0]]
    /\ lateFirst = [t \in Threads |-> [c \in Cells |-> FALSE]]
    /\ stored = [t \in Threads |-> [c \in Cells |-> None]]
    /\ consumed = [t \in Threads |-> [c \in Cells |-> None]]
    /\ passLog = [t \in Threads |-> <<>>]
    /\ regSeq = [t \in Threads |-> <<>>]
    /\ returned = [t \in Threads |-> FALSE]

\* One thread uses the cells.
Init == live = {"X"} /\ Boot

\* Two threads use the same static cells.
InitMT ==
    /\ live = Threads
    /\ Boot
    /\ \A c \in Cells \ (1..NumCellsMT) : ~needs[c]

\* ------------------------------------------------------------- actions
\* Code of thread t is running: ordinary code before exit, or the Drop code
\* of the value that destroy_value is consuming.
UserCode(t) ==
    \/ phase[t] = "running"
    \/ pc[t] = "drop" /\ inner[cur[t][1]][cur[t][2]] \in Values

\* Bounds of a run: the number of Key::get calls, and the cells in use.
OpBudget == IF Cardinality(live) > 1 THEN MaxOpsMT ELSE MaxOps

UsedCells == IF Cardinality(live) > 1 THEN 1..NumCellsMT ELSE Cells

exitVars == <<phase, pc, list, idx, cur, invoked, consumed, passLog,
              returned>>

\* Variant: dtor_registered is set before register_dtor is called.
FlagSetFirst(done) == TRUE

\* Key::register_dtor: `self.dtor_registered.set(true)` follows the call of
\* register_dtor, it is executed once that call has returned.
FlagSet(done) == done

\* Key::get on cell c by thread t; with write = TRUE the caller then stores v
\* through the slot it got (nothing is stored when get returned None). r is
\* the value the native hook returns if it is called.
KeyGetWith(t, c, write, v, r) ==
    /\ UserCode(t)
    /\ ops < OpBudget
    /\ ops' = ops + 1
    /\ accessed' = [accessed EXCEPT ![t][c] = TRUE]
    /\ lateFirst' = [lateFirst EXCEPT ![t][c] =
                        @ \/ (~accessed[t][c] /\ pc[t] = "drop")]
    /\ IF GetUnavailable(t, c)
       THEN /\ ret' = [ret EXCEPT ![t] =
                          [cell |-> c, slot |-> NoSlot, wrote |-> FALSE,
                           in |-> cur[t]]]
            /\ UNCHANGED <<inner, dtor_registered, DTORS, heap, native,
                           regCount, stored, regSeq>>
       ELSE /\ IF SkipRegistration(t, c)
               THEN UNCHANGED <<dtor_registered, DTORS, heap, native,
                                regCount, regSeq>>
               ELSE LET p == SelfPtr(t, c) IN
                    /\ RegisterDtor(t, p, r)
                    /\ dtor_registered' = [dtor_registered EXCEPT ![t][c] =
                                              @ \/ FlagSet(TRUE)]
                    /\ regCount' = [regCount EXCEPT ![p[1]][p[2]] = @ + 1]
                    /\ regSeq' = [regSeq EXCEPT ![t] = Append(@, p)]
            /\ LET s == SlotOf(t, c) IN
               /\ ret' = [ret EXCEPT ![t] =
                             [cell |-> c, slot |-> s, wrote |-> write,
                              in |-> cur[t]]]
               /\ inner' = IF write THEN [inner EXCEPT ![s[1]][s[2]] = v]
                                    ELSE inner
            /\ stored' = IF write THEN [stored EXCEPT ![t][c] = v] ELSE stored
    /\ UNCHANGED <<live, aborted, platform, hook, needs, dtor_running>>
    /\ UNCHANGED exitVars

\* Key::get with registrar calls that succeed.
KeyGet(t, c, write, v) == KeyGetWith(t, c, write, v, 0)

Access(t, c) == KeyGet(t, c, FALSE, None)

Store(t, c, v) == KeyGet(t, c, TRUE, v)

\* Key::get on linux with the hook present, registering c, when the hook
\* reports failure through its return value.
HookRefuses(t, c, write, v) ==
    /\ platform = "linux" /\ hook
    /\ ~GetUnavailable(t, c)
    /\ ~SkipRegistration(t, c)
    /\ KeyGetWith(t, c, write, v, 1)

\* Key::get registering c through register_dtor_fallback when an allocation
\* fails: that of the Box<List> (at = "box") or that of the first push into
\* the new list (at = "push"; later pushes of a run fit the capacity the first
\* one allocated). The failure aborts the process inside register_dtor: get
\* does not return and the statements after the call are not executed.
AllocFail(t, c, at) ==
    /\ UserCode(t)
    /\ ops < OpBudget
    /\ ~GetUnavailable(t, c)
    /\ ~SkipRegistration(t, c)
    /\ ~UseNativeHook
    /\ DtorsGet(t) = NullPtr
    /\ aborted' = TRUE
    /\ ops' = ops + 1
    /\ accessed' = [accessed EXCEPT ![t][c] = TRUE]
    /\ lateFirst' = [lateFirst EXCEPT ![t][c] =
                        @ \/ (~accessed[t][c] /\ pc[t] = "drop")]
    /\ regCount' = [regCount EXCEPT ![t][c] = @ + 1]
    /\ dtor_registered' = [dtor_registered EXCEPT ![t][c] = @ \/ FlagSet(FALSE)]
    /\ IF at = "push"
       THEN /\ heap' = [heap EXCEPT ![t] = Append(@, EmptyList)]
            /\ DTORS' = [DTORS EXCEPT ![t] = FallbackListPtr(t)]
       ELSE UNCHANGED <<heap, DTORS>>
    /\ UNCHANGED <<live, platform, hook, needs, inner, dtor_running, native,
                   ret, stored, regSeq>>
    /\ UNCHANGED exitVars

\* Thread t stops executing ordinary code; its exit sequence begins.
ThreadExit(t) ==
    /\ phase[t] = "running"
    /\ phase' = [phase EXCEPT ![t] = "exiting"]
    /\ UNCHANGED <<live, aborted, platform, hook, needs, inner, dtor_registered,
                   dtor_running, DTORS, heap, native, pc, list, idx,
                   cur, ret, ops, accessed, regCount, invoked, lateFirst,
                   stored, consumed, passLog, regSeq, returned>>

\* destroy_value(p), first statement: flag the destructor as running.
DestroyEnter(t, p) ==
    /\ dtor_running' = [dtor_running EXCEPT ![p[1]][p[2]] = RunningFlag(@)]
    /\ cur' = [cur EXCEPT ![t] = p]
    /\ pc' = [pc EXCEPT ![t] = "drop"]
    /\ invoked' = [invoked EXCEPT ![p[1]][p[2]] = @ + 1]

\* The native runtime runs the newest pending pair of the exiting thread.
NativeCall(t) ==
    /\ phase[t] = "exiting"
    /\ pc[t] = "idle"
    /\ native[t] # <<>>
    /\ native' = [native EXCEPT ![t] = Tail(@)]
    /\ DestroyEnter(t, Head(native[t]))
    /\ UNCHANGED <<live, aborted, platform, hook, needs, inner, dtor_registered, DTORS,
                   heap, phase, list, idx, ret, ops, accessed,
                   regCount, lateFirst, stored, consumed, passLog, regSeq, returned>>

\* The OS runs the destructor of key DTORS: a non-null value is reset to
\* null and handed to run_dtors, whose first pass takes the list over
\* (`while !ptr.is_null() { let list = Box::from_raw(ptr); ...`).
KeyDtor(t) ==
    /\ phase[t] = "exiting"
    /\ pc[t] = "idle"
    /\ native[t] = <<>>
    /\ DTORS[t] # NullPtr
    /\ DTORS' = [DTORS EXCEPT ![t] = NullPtr]
    /\ list' = [list EXCEPT ![t] = DTORS[t]]
    /\ idx' = [idx EXCEPT ![t] = 1]
    /\ passLog' = [passLog EXCEPT ![t] = <<>>]
    /\ pc' = [pc EXCEPT ![t] = "for"]
    /\ returned' = [returned EXCEPT ![t] = FALSE]
    /\ heap' = [heap EXCEPT ![t][DTORS[t]].iters = @ + 1]
    /\ UNCHANGED <<live, aborted, platform, hook, needs, inner, dtor_registered,
                   dtor_running, native, phase, cur, ret,
                   ops, accessed, regCount, invoked, lateFirst, stored, consumed,
                   regSeq>>

\* run_dtors: `for &(ptr, dtor) in list.iter() { dtor(ptr); }`, one call.
RunDtorsCall(t) ==
    /\ pc[t] = "for"
    /\ idx[t] <= Len(heap[t][list[t]].items)
    /\ DestroyEnter(t, heap[t][list[t]].items[idx[t]])
    /\ passLog' = [passLog EXCEPT ![t] =
                      Append(@, heap[t][list[t]].items[idx[t]])]
    /\ UNCHANGED <<live, aborted, platform, hook, needs, inner, dtor_registered, DTORS,
                   heap, native, phase, list, idx, ret, ops, accessed,
                   regCount, lateFirst, stored, consumed, regSeq, returned>>

\* run_dtors, end of a pass: `ptr = DTORS.get(); DTORS.set(ptr::null_mut());`,
\* the Box<List> of the pass is freed and the `while` test either starts the
\* next pass on the new list or returns.
RunDtorsNext(t) ==
    /\ pc[t] = "for"
    /\ idx[t] > Len(heap[t][list[t]].items)
    /\ DTORS' = [DTORS EXCEPT ![t] = ClearedPtr(t)]
    /\ heap' = [heap EXCEPT ![t] =
                   LET h == [@ EXCEPT ![list[t]].freed = TRUE] IN
                   IF NextPtr(t) # NullPtr
                   THEN [h EXCEPT ![NextPtr(t)].iters = @ + 1]
                   ELSE h]
    /\ list' = [list EXCEPT ![t] = NextPtr(t)]
    /\ IF NextPtr(t) # NullPtr
       THEN /\ idx' = [idx EXCEPT ![t] = 1]
            /\ passLog' = [passLog EXCEPT ![t] = <<>>]
            /\ UNCHANGED <<pc, returned>>
       ELSE /\ idx' = [idx EXCEPT ![t] = 0]
            /\ pc' = [pc EXCEPT ![t] = "idle"]
            /\ returned' = [returned EXCEPT ![t] = TRUE]
            /\ UNCHANGED passLog
    /\ UNCHANGED <<live, aborted, platform, hook, needs, inner, dtor_registered,
                   dtor_running, native, phase, cur, ret, ops, accessed,
                   regCount, invoked, lateFirst, stored, consumed, regSeq>>

\* destroy_value(p), rest: the value is consumed and the trampoline returns
\* to its caller (the pass of run_dtors, or the native runtime).
DestroyValue(t) ==
    /\ pc[t] = "drop"
    /\ inner' = [inner EXCEPT ![cur[t][1]][cur[t][2]] = Consume(@)]
    /\ consumed' = [consumed EXCEPT ![cur[t][1]][cur[t][2]] =
                       inner[cur[t][1]][cur[t][2]]]
    /\ cur' = [cur EXCEPT ![t] = NoSlot]
    /\ IF list[t] # NullPtr
       THEN /\ pc' = [pc EXCEPT ![t] = "for"]
            /\ idx' = [idx EXCEPT ![t] = @ + 1]
       ELSE /\ pc' = [pc EXCEPT ![t] = "idle"]
            /\ UNCHANGED idx
    /\ UNCHANGED <<live, aborted, platform, hook, needs, dtor_registered, dtor_running,
                   DTORS, heap, native, phase, list, ret, ops,
                   accessed, regCount, invoked, lateFirst, stored, passLog,
                   regSeq, returned>>

\* Nothing is left to run: the thread's resources are reclaimed.
ThreadDone(t) ==
    /\ phase[t] = "exiting"
    /\ pc[t] = "idle"
    /\ native[t] = <<>>
    /\ DTORS[t] = NullPtr
    /\ phase' = [phase EXCEPT ![t] = "exited"]
    /\ UNCHANGED <<live, aborted, platform, hook, needs, inner, dtor_registered,
                   dtor_running, DTORS, heap, native, pc, list, idx,
                   cur, ret, ops, accessed, regCount, invoked, lateFirst,
                   stored, consumed, passLog, regSeq, returned>>

Step(t) ==
    \/ \E c \in UsedCells : Access(t, c)
    \/ \E c \in UsedCells, v \in Values : Store(t, c, v)
    \/ ThreadExit(t)
    \/ NativeCall(t)
    \/ KeyDtor(t)
    \/ RunDtorsCall(t)
    \/ RunDtorsNext(t)
    \/ DestroyValue(t)
    \/ ThreadDone(t)

Next == \E t \in live : Step(t)

Spec == Init /\ [][Next]_vars

SpecMT == InitMT /\ [][Next]_vars

\* The program in an environment whose allocator and native hook can fail.
NextFault ==
    /\ ~aborted
    /\ \/ Next
       \/ \E t \in live, c \in UsedCells, at \in {"box", "push"} :
             AllocFail(t, c, at)
       \/ \E t \in live, c \in UsedCells, w \in BOOLEAN, v \in Values :
             HookRefuses(t, c, w, v)

SpecFault == Init /\ [][NextFault]_vars

\* An exiting thread keeps executing: the steps of its runner and of the
\* trampoline are taken as long as they are possible (Init has the one
\* thread X).
RunnerStep(t) == RunDtorsCall(t) \/ RunDtorsNext(t) \/ DestroyValue(t)

SpecFair == Init /\ [][Next]_vars /\ WF_vars(RunnerStep("X"))

\* ---------------------------------------------------------------- claims
Ptrs == Threads \X Cells

\* destroy_value is executing on <<t, c>>.
InTrampoline(t, c) == pc[t] = "drop" /\ cur[t] = <<t, c>>

\* Position of pointer p in the sequence s.
Pos(s, p) == CHOOSE k \in 1..Len(s) : s[k] = p

\* C1: for a cell whose type needs cleanup the registrar has been called
\* exactly once for (cell, thread) if Key::get was called at least once on it
\* and never otherwise, and dtor_registered says the same; so every call of
\* get after the first leaves both as they were.
C1_RegisteredOnce ==
    \A t \in Threads, c \in Cells :
        needs[c] =>
            /\ regCount[t][c] = (IF accessed[t][c] THEN 1 ELSE 0)
            /\ dtor_registered[t][c] = accessed[t][c]

\* C1 witness: a needs-cleanup cell that was the target of at least two gets.
C1_Witness ==
    \E t \in Threads, c \in Cells :
        /\ needs[c] /\ regCount[t][c] = 1 /\ ops >= 2
        /\ \A t2 \in Threads, c2 \in Cells :
              accessed[t2][c2] => (t2 = t /\ c2 = c)

\* C2: destroy_value is never invoked twice for a (cell, thread), and once the
\* thread has exited it has been invoked exactly once for every cell the
\* thread registered, also for cells registered inside another destructor.
C2_DestroyedExactlyOnce ==
    \A t \in Threads, c \in Cells :
        /\ invoked[t][c] <= 1
        /\ (phase[t] = "exited" /\ regCount[t][c] > 0) => invoked[t][c] = 1

\* C2 witness: an exited thread with a cell that was first used, and
\* registered, inside another cell's destructor.
C2_Witness ==
    \E t \in Threads, c \in Cells :
        /\ phase[t] = "exited" /\ needs[c] /\ lateFirst[t][c]
        /\ invoked[t][c] = 1

\* C3: under the fallback backend, a needs-cleanup cell whose first get was
\* made by a running destructor is registered by that get, and its trampoline
\* has been invoked by the time run_dtors returns.
C3_LateRegistrationRuns ==
    \A t \in Threads, c \in Cells :
        (~UseNativeHook /\ needs[c] /\ lateFirst[t][c]) =>
            /\ regCount[t][c] = 1
            /\ dtor_registered[t][c]
            /\ returned[t] => invoked[t][c] = 1

\* C3 witness: run_dtors has returned after a second pass that ran the late
\* registered cell.
C3_Witness ==
    \E t \in Threads, c \in Cells :
        /\ ~UseNativeHook /\ needs[c] /\ lateFirst[t][c]
        /\ returned[t] /\ invoked[t][c] = 1 /\ Len(heap[t]) >= 2

\* C4: while destroy_value runs on a cell its dtor_running is already set
\* when the value is still in the slot, and every get the same thread makes
\* on that cell meanwhile returns None and stores nothing.
C4_ReentrantUnavailable ==
    /\ [](\A t \in Threads, c \in Cells :
             InTrampoline(t, c) => dtor_running[t][c])
    /\ [][\A t \in Threads, c \in Cells :
             (InTrampoline(t, c) /\
              (Access(t, c) \/ \E v \in Values : Store(t, c, v)))
             => (ret'[t].slot = NoSlot /\ inner' = inner)]_vars

\* C4 witness: inside the trampoline of a cell that holds a value, the latest
\* get was on that very cell and returned None.
C4_Witness ==
    \E t \in Threads, c \in Cells :
        /\ InTrampoline(t, c) /\ inner[t][c] \in Values
        /\ ret[t].cell = c /\ ret[t].slot = NoSlot

\* C5: for a cell whose type needs no cleanup the registrar is never called
\* and dtor_registered stays false.
C5_NoCleanupNoRegistration ==
    \A t \in Threads, c \in Cells :
        ~needs[c] => (regCount[t][c] = 0 /\ ~dtor_registered[t][c])

\* C5 witness: a no-cleanup cell that was the target of at least two gets.
C5_Witness ==
    \E t \in Threads, c \in Cells :
        /\ ~needs[c] /\ accessed[t][c] /\ ops >= 2
        /\ \A t2 \in Threads, c2 \in Cells :
              accessed[t2][c2] => (t2 = t /\ c2 = c)

\* C6 as stated: dtor_running is true exactly while the trampoline executes,
\* false before it and false again after it has returned.
C6_Original ==
    \A t \in Threads, c \in Cells :
        dtor_running[t][c] <=> InTrampoline(t, c)

\* C6 amended: dtor_running is false before the trampoline starts and true
\* from the moment it has started, during its execution and after its return.
C6_RunningSinceStart ==
    \A t \in Threads, c \in Cells :
        dtor_running[t][c] <=> invoked[t][c] > 0

\* C6 witness: the trampoline of a cell has returned and the thread moved on.
C6_Witness ==
    \E t \in Threads, c \in Cells :
        invoked[t][c] > 0 /\ ~InTrampoline(t, c) /\ dtor_running[t][c]

C8_Isolation ==
    [][\A x \in Threads :
          Step(x) => \A y \in Threads \ {x} : View(y)' = View(y)]_vars

\* C8 witness: with the same cell, one thread's destructor has run while the
\* other thread still holds its own, different, value.
C8_Witness ==
    \E c \in Cells :
        /\ needs[c]
        /\ dtor_running["X"][c] /\ stored["X"][c] \in Values
        /\ ~dtor_running["Y"][c] /\ dtor_registered["Y"][c]
        /\ inner["Y"][c] \in Values /\ inner["Y"][c] # stored["X"][c]

\* C9: before its exit begins, a thread that stored V through a cell's slot
\* and then calls get with no store in between gets the slot, and the slot
\* holds V.
C9_RoundTrip ==
    \A t \in Threads, c \in Cells :
        (/\ phase[t] = "running"
         /\ ret[t].cell = c /\ ~ret[t].wrote
         /\ stored[t][c] \in Values)
        => /\ ret[t].slot # NoSlot
           /\ inner[ret[t].slot[1]][ret[t].slot[2]] = stored[t][c]

\* C9 witness: a get that followed a store to the same cell.
C9_Witness ==
    \E t \in Threads, c \in Cells :
        /\ phase[t] = "running"
        /\ ret[t].cell = c /\ ~ret[t].wrote /\ ret[t].slot # NoSlot
               /\ stored[t][c] \in Values

\* C10: in the fallback backend the pairs run by one pass of run_dtors are
\* invoked in the order in which they were registered on the thread.
C10_PassOrder ==
    \A t \in Threads :
        \A i, j \in 1..Len(passLog[t]) :
            i < j => Pos(regSeq[t], passLog[t][i]) < Pos(regSeq[t], passLog[t][j])

\* C10 witness: a pass that has invoked two pairs.
C10_Witness ==
    \E t \in Threads : ~UseNativeHook /\ Len(passLog[t]) >= 2

\* Places where pointer p is held: in the native runtime's list of thread t,
\* and in the fallback lists of thread t.
NativeSlots(t, p) == {i \in 1..Len(native[t]) : native[t][i] = p}

FallbackSlots(t, p) ==
    UNION {{<<k, i>> : i \in {j \in 1..Len(heap[t][k].items) :
                                heap[t][k].items[j] = p}} :
           k \in 1..Len(heap[t])}

\* C11: on linux every registration is delivered to exactly one backend: with
\* the hook present the pair goes to the native hook and the fallback lists
\* and DTORS are untouched, with the hook absent it is appended to the
\* fallback list and the native runtime gets nothing.
C11_OneBackend ==
    [][\A t \in Threads, c \in Cells :
          (platform = "linux" /\ regCount'[t][c] = regCount[t][c] + 1) =>
              IF hook
              THEN /\ Cardinality(NativeSlots(t, <<t, c>>)') =
                          Cardinality(NativeSlots(t, <<t, c>>)) + 1
                   /\ heap' = heap /\ DTORS' = DTORS
              ELSE /\ Cardinality(FallbackSlots(t, <<t, c>>)') =
                          Cardinality(FallbackSlots(t, <<t, c>>)) + 1
                   /\ heap'[t][DTORS'[t]].items[Len(heap'[t][DTORS'[t]].items)]
                          = <<t, c>>
                   /\ native' = native]_vars

\* C11 witness: linux with the hook present, a pair held by the native
\* runtime and no fallback list.
C11_Witness ==
    \E t \in Threads, c \in Cells :
        /\ platform = "linux" /\ hook
        /\ regCount[t][c] = 1 /\ NativeSlots(t, <<t, c>>) # {}
        /\ heap[t] = <<>>

\* C12: for a cell whose type needs no cleanup every get returns the slot,
\* also a get made from a destructor during thread exit.
C12_PlainAlwaysSlot ==
    \A t \in Threads, c \in Cells :
        (~needs[c] /\ ret[t].cell = c) => ret[t].slot = <<t, c>>

\* C12 witness: a no-cleanup cell was read from inside another cell's
\* destructor.
C12_Witness ==
    \E t \in Threads, c \in Cells :
        ~needs[c] /\ ret[t].cell = c /\ ret[t].in # NoSlot

\* C13: when a thread has written a needs-cleanup cell and exited, the
\* trampoline has run once for the cell and what it consumed is the value the
\* thread stored last.
C13_ConsumesLastStored ==
    \A t \in Threads, c \in Cells :
        /\ (needs[c] /\ stored[t][c] \in Values /\ phase[t] = "exited")
              => invoked[t][c] = 1
        /\ (invoked[t][c] > 0 /\ ~InTrampoline(t, c))
              => consumed[t][c] = stored[t][c]

\* C13 witness: an exited thread whose only cell was used at least twice,
\* last by a store, and whose stored value was consumed.
C13_Witness ==
    \E t \in Threads, c \in Cells :
        /\ phase[t] = "exited" /\ ops >= 2
        /\ \A c2 \in Cells : accessed[t][c2] => c2 = c
        /\ stored[t][c] \in Values /\ consumed[t][c] = stored[t][c]

\* Number of passes run_dtors has started on thread t.
Passes(t) == Cardinality({k \in 1..Len(heap[t]) : heap[t][k].iters > 0})

\* C15: the drain loop of run_dtors terminates. The pairs a thread ever
\* registers are at most one per needs-cleanup cell and every list holds at
\* least one pair, so the passes are at most as many as the cells; and a
\* runner that has started a pass returns (stated for the thread X of Init).
C15_RunnerTerminates ==
    /\ [](\A t \in Threads :
             /\ Len(regSeq[t]) <= Cardinality({c \in Cells : needs[c]})
             /\ \A k \in 1..Len(heap[t]) : heap[t][k].items # <<>>
             /\ Passes(t) <= NumCells)
    /\ (pc["X"] = "for") ~> returned["X"]

\* C15 witness: run_dtors has returned after as many passes as there are
\* cells, each pass started by a registration made in a destructor.
C15_Witness ==
    \E t \in Threads : returned[t] /\ Passes(t) = NumCells

\* C16: once the trampoline has started for a needs-cleanup (cell, thread)
\* the flag dtor_running stays set, the cell is never registered again, and
\* every later get of the thread on the cell returns None and stores nothing,
\* also after the trampoline has returned.
C16_UnavailableForever ==
    [][\A t \in Threads, c \in Cells :
          (needs[c] /\ invoked[t][c] > 0) =>
              /\ dtor_running'[t][c]
              /\ regCount'[t][c] = regCount[t][c]
              /\ (Access(t, c) \/ \E v \in Values : Store(t, c, v))
                    => (ret'[t].slot = NoSlot /\ inner' = inner)]_vars

\* C16 witness: a get on a destroyed cell, made from the destructor of another
\* cell that ran later, returned None.
C16_Witness ==
    \E t \in Threads, c \in Cells :
        /\ needs[c] /\ invoked[t][c] = 1
        /\ ret[t].cell = c /\ ret[t].slot = NoSlot
        /\ ret[t].in # NoSlot /\ ret[t].in # <<t, c>>

\* C18 as stated: while a pass of run_dtors is in progress DTORS is null, and
\* no list is iterated or freed more than once.
C18_Original ==
    \A t \in Threads :
        /\ list[t] # NullPtr => DTORS[t] = NullPtr
        /\ \A k \in 1..Len(heap[t]) : heap[t][k].iters <= 1

\* C18 amended: while a pass is in progress DTORS is never the list being
\* iterated: it is null, or it is a fresh list that a registration made during
\* the pass allocated and that no pass has taken over yet, so such a
\* registration never appends to the list being iterated; the list being
\* iterated is not freed, a freed list is no longer reachable through DTORS,
\* and no list is iterated (hence freed) more than once.
C18_NeverTheIteratedList ==
    \A t \in Threads :
        /\ list[t] # NullPtr =>
              /\ DTORS[t] # list[t]
              /\ ~heap[t][list[t]].freed
              /\ heap[t][list[t]].iters = 1
              /\ DTORS[t] # NullPtr =>
                    /\ heap[t][DTORS[t]].iters = 0
                    /\ \A i \in 1..Len(heap[t][DTORS[t]].items) :
                          lateFirst[t][heap[t][DTORS[t]].items[i][2]]
        /\ \A k \in 1..Len(heap[t]) :
              /\ heap[t][k].iters <= 1
              /\ heap[t][k].freed => (k # DTORS[t] /\ k # list[t])

\* C18 witness: a pass is in progress and a registration made by one of its
\* destructors has put a fresh list into DTORS.
C18_Witness ==
    \E t \in Threads :
        /\ list[t] # NullPtr /\ DTORS[t] # NullPtr /\ DTORS[t] # list[t]
        /\ heap[t][DTORS[t]].items # <<>>

\* C19: when run_dtors has returned DTORS is null, every list has been freed
\* and every pair of every list has been invoked: the OS key destructor has
\* nothing to run again.
C19_NothingLeft ==
    \A t \in Threads :
        returned[t] =>
            /\ DTORS[t] = NullPtr
            /\ \A k \in 1..Len(heap[t]) :
                  /\ heap[t][k].freed
                  /\ \A i \in 1..Len(heap[t][k].items) :
                        invoked[heap[t][k].items[i][1]][heap[t][k].items[i][2]] = 1
            /\ ~ENABLED KeyDtor(t)

\* C19 witness: run_dtors has returned after freeing two lists.
C19_Witness ==
    \E t \in Threads :
        /\ returned[t] /\ phase[t] = "exiting"
        /\ Len(heap[t]) >= 2 /\ heap[t][2].freed

\* The pair of <<t, c>> is pending with a backend of thread t: held by the
\* native runtime, or in the list DTORS points to, or not yet reached in the
\* list the runner is iterating.
Pending(t, c) ==
    \/ NativeSlots(t, <<t, c>>) # {}
    \/ /\ DTORS[t] # NullPtr
       /\ \E i \in 1..Len(heap[t][DTORS[t]].items) :
             heap[t][DTORS[t]].items[i] = <<t, c>>
    \/ /\ list[t] # NullPtr
       /\ \E i \in idx[t]..Len(heap[t][list[t]].items) :
             heap[t][list[t]].items[i] = <<t, c>>

\* C14: in the fallback backend a failed allocation of the destructor list
\* surfaces at once: the failing step returns nothing from get and leaves
\* dtor_registered and the slot as they were, no step of the program follows
\* it, and no cell has dtor_registered set without its pair being pending or
\* already run.
C14_AllocFailureSurfaces ==
    /\ [](aborted =>
             \A t \in Threads, c \in Cells :
                 dtor_registered[t][c] => (Pending(t, c) \/ invoked[t][c] > 0))
    /\ [][/\ ~aborted
          /\ aborted' => (/\ ret' = ret
                          /\ inner' = inner
                          /\ dtor_registered' = dtor_registered)]_vars

\* C14 witness: the first push into a freshly allocated list failed for a
\* cell that a destructor was registering.
C14_Witness ==
    \E t \in Threads, c \in Cells :
        /\ aborted /\ lateFirst[t][c] /\ regCount[t][c] = 1
        /\ ~dtor_registered[t][c]
        /\ DTORS[t] # NullPtr /\ heap[t][DTORS[t]].items = <<>>

\* C17 as stated: dtor_registered implies that the pair was handed to a
\* backend and is still pending there or has been invoked, and dtor_running
\* implies dtor_registered.
C17_Original ==
    \A t \in Threads, c \in Cells :
        /\ dtor_registered[t][c] => (Pending(t, c) \/ invoked[t][c] > 0)
        /\ dtor_running[t][c] => dtor_registered[t][c]

====
